---- MODULE Spec2Model ----
(***************************************************************************)
(* State-machine model of src/src/component/SkateParkMap.jsx: the React    *)
(* component App, its state hooks, its event handlers and the steps of the *)
(* async function fetchRoute between its awaits.                           *)
(*                                                                         *)
(* Conventions.                                                            *)
(*  - Degrees are integers in units of 1e-4 degree: 45.4211 is 454211.     *)
(*  - A JavaScript value that may be null or undefined is a record:        *)
(*    Null, Undefined, Arr(<<..>>) for an array, or the object itself.     *)
(*  - A coordinate array [lon, lat] that is never null is a tuple          *)
(*    <<lon, lat>>: JavaScript index 0 is TLA+ index 1.                    *)
(***************************************************************************)
EXTENDS Integers, Sequences, FiniteSets, TLC

VARIABLES
    viewport,       \* useState, lines 13-21
    selectedPark,   \* useState, line 23
    userPin,        \* useState, line 24
    startLocation,  \* useState, line 25
    endLocation,    \* useState, line 26
    route,          \* useState, line 27
    geocoder,       \* TRUE once handleMapLoad has attached the search control
    geolocation,    \* the one getCurrentPosition request made at mount
    inv,            \* the activations of fetchRoute: position and locals
    lookup,         \* a call of geocodeLocation taken alone: input and result
    handled,        \* history: the directions answer read last, where observed
    lastEvent       \* history: the event last dispatched to a map, keyboard
                    \* or geolocation handler, and what it replaced

vars == <<viewport, selectedPark, userPin, startLocation, endLocation, route,
          geocoder, geolocation, inv, lookup, handled, lastEvent>>

uiVars == <<viewport, selectedPark, userPin, geocoder, geolocation, lastEvent>>

(***************************************************************************)
(* Bounds and the finite sets inputs are drawn from.                       *)
(***************************************************************************)
\* How many fetchRoute activations (Show Route clicks) a behaviour holds.
MaxInv == 2

Invocations == 1..MaxInv

Null == [js |-> "null"]
Undefined == [js |-> "undefined"]
Arr(s) == [js |-> "array", elems |-> s]

\* Truthiness of the values the model holds (null and undefined are falsy,
\* arrays and objects are truthy).
Truthy(v) == v # Null /\ v # Undefined

\* The texts typed into the two inputs: a place name, or nothing.
Places == {"Ottawa", "Kingston", "Toronto"}
StartTexts == {"", "Ottawa", "Kingston"}
EndTexts == {"", "Toronto"}

\* JavaScript truthiness of a string: the empty string is falsy.
TruthyText(s) == s # ""

\* Where the hosted geocoder puts a place: <<lon, lat>>.
PlaceCoords(p) ==
    CASE p = "Ottawa" -> <<-756972, 454215>>
      [] p = "Kingston" -> <<-764860, 442312>>
      [] p = "Toronto" -> <<-793832, 436532>>
      [] OTHER -> <<0, 0>>

\* Some other candidate the geocoder may rank second.
OtherCoords == <<-735674, 455017>>

defaultLocation == [latitude |-> 454211, longitude |-> -756903]

(***************************************************************************)
(* The hosted geocoding endpoint, lines 66-69: what one request can yield. *)
(* fetch() rejects (transport failure), or resolves and response.json()    *)
(* rejects (unparsable body), or the body parses to data.                  *)
(***************************************************************************)
\* How many candidates a geocoding result list holds at most.
MaxFeatures == 2

\* The candidate ranked first for place p: p's own position; it may lack
\* its geometry, or its geometry the coordinates.
FirstFeatures(p) ==
    { [geometry |-> [type |-> "Point", coordinates |-> PlaceCoords(p)]],
      [geometry |-> [type |-> "Point"]],
      [id |-> "place"] }

\* A candidate ranked after the first: some place elsewhere.
otherFeature == [geometry |-> [type |-> "Point", coordinates |-> OtherCoords]]

\* The result lists for place p: empty, or a first candidate and up to
\* MaxFeatures - 1 more.
FeatureLists(p) ==
    { <<>> } \cup
    { <<first>> \o [k \in 1..n |-> otherFeature] :
        first \in FirstFeatures(p), n \in 0..(MaxFeatures - 1) }

GeocodeData(p) ==
    {Null, [message |-> "Not Authorized"]}
        \cup { [features |-> fs] : fs \in FeatureLists(p) }

GeocodeOutcomes(p) ==
    { [fetch |-> "rejected"], [fetch |-> "resolved", json |-> "rejected"] }
        \cup { [fetch |-> "resolved", json |-> "resolved", data |-> d] :
                 d \in GeocodeData(p) }

\* How a call ends: it returns a value, or an error leaves it.
Return(v) == [completion |-> "return", value |-> v]
\* An error leaves it, and this is the error.
ThrowError(error) == [completion |-> "throw", error |-> error]

\* The errors the two catch blocks receive, as lines 80 and 154 log them:
\* fetch() rejecting, json() rejecting, and reading a property of null or
\* undefined in data.features, in data.features[0].geometry.coordinates
\* and in data.routes[0].geometry.
ReadingFeatures == "TypeError: Cannot read properties of null (reading 'features')"
ReadingCoordinates ==
    "TypeError: Cannot read properties of undefined (reading 'coordinates')"
FailedToFetch == "TypeError: Failed to fetch"
UnexpectedToken == "SyntaxError: Unexpected token"
ReadingRoutes == "TypeError: Cannot read properties of null (reading 'routes')"
ReadingZero == "TypeError: Cannot read properties of undefined (reading '0')"
ReadingGeometry == "TypeError: Cannot read properties of undefined (reading 'geometry')"

\* The body of the try block of geocodeLocation, lines 66-78, on a parsed
\* body: reading a property of null or undefined is a TypeError.
geocodeTry(data) ==
    IF data = Null
    THEN ThrowError(ReadingFeatures)
    ELSE IF "features" \in DOMAIN data /\ Len(data.features) > 0
         THEN LET first == data.features[1]
              IN  IF "geometry" \notin DOMAIN first
                  THEN ThrowError(ReadingCoordinates)
                  ELSE IF "coordinates" \notin DOMAIN first.geometry
                       THEN Return(Undefined)
                       ELSE Return(Arr(first.geometry.coordinates))
         ELSE Return(Null)

\* geocodeLocation without its catch block: an error leaves it.
geocodeLocationUncaught(outcome) ==
    IF outcome.fetch = "rejected"
    THEN ThrowError(FailedToFetch)
    ELSE IF outcome.json = "rejected"
         THEN ThrowError(UnexpectedToken)
         ELSE geocodeTry(outcome.data)

\* geocodeLocation, lines 64-83: every error of the try block is caught
\* and answered with null.
geocodeLocation(outcome) ==
    LET tried == IF outcome.fetch = "rejected"
                 THEN ThrowError(FailedToFetch)
                 ELSE IF outcome.json = "rejected"
                      THEN ThrowError(UnexpectedToken)
                      ELSE geocodeTry(outcome.data)
    IN  IF tried.completion = "throw" THEN Return(Null) ELSE tried

(***************************************************************************)
(* The hosted directions endpoint, lines 139-147. The request is the path  *)
(* of its URL, `${startCoords.join(',')};${endCoords.join(',')}`: the four  *)
(* numbers in the order they are written.                                  *)
(***************************************************************************)
\* The two arrays joined in the wrong order.
DirectionsPathEndFirst(startCoords, endCoords) ==
    endCoords.elems \o startCoords.elems

\* Array.prototype.join(',') of a coordinate array, then the two joined
\* with ';': the numbers of the URL path, in order.
DirectionsPath(startCoords, endCoords) == startCoords.elems \o endCoords.elems

GeocodeRequest(location) == [endpoint |-> "geocoding", location |-> location]
DirectionsRequest(startCoords, endCoords) ==
    [endpoint |-> "directions", path |-> DirectionsPath(startCoords, endCoords)]

\* How many candidates a directions answer holds at most.
MaxRoutes == 2

\* The geometry of the driving route the service finds for a request path.
Direct(path) ==
    [type |-> "LineString",
     coordinates |-> << <<path[1], path[2]>>, <<path[3], path[4]>> >>]

\* An alternative it may rank after it.
Detour(path) ==
    [type |-> "LineString",
     coordinates |-> << <<path[1], path[2]>>, OtherCoords, <<path[3], path[4]>> >>]

\* The answers' route lists: empty, or the direct route and up to
\* MaxRoutes - 1 alternatives. With geometries=geojson in the request
\* (line 140) every candidate of an answer carries its geometry.
RouteLists(path) ==
    { <<>> } \cup
    { <<[geometry |-> Direct(path)]>> \o [k \in 1..n |-> [geometry |-> Detour(path)]] :
        n \in 0..(MaxRoutes - 1) }

\* What res.json() can yield: it rejects, or the body parses to data.
DirectionsBodies(path) ==
    { [json |-> "rejected"] }
        \cup { [json |-> "resolved", data |-> d] :
                 d \in {Null, [code |-> "NoRoute"]}
                          \cup { [routes |-> rs] : rs \in RouteLists(path) } }

\* What fetch() of the directions URL can yield: it rejects, or resolves
\* with a response whose status is a success (res.ok) or not.
DirectionsResponses ==
    { [fetch |-> "rejected"] }
        \cup { [fetch |-> "resolved", ok |-> b] : b \in BOOLEAN }

\* data.routes?.[0]?.geometry ?? null: an answer without a first candidate
\* read as no route.
firstRouteGeometryOrNull(data) ==
    IF data = Null
    THEN ThrowError(ReadingRoutes)
    ELSE IF "routes" \notin DOMAIN data
         THEN Return(Null)
         ELSE IF Len(data.routes) = 0
              THEN Return(Null)
              ELSE IF "geometry" \notin DOMAIN data.routes[1]
                   THEN Return(Undefined)
                   ELSE Return(data.routes[1].geometry)

\* data.routes[0].geometry, line 145: a TypeError when data is null, when
\* it has no routes, or when the list is empty.
firstRouteGeometry(data) ==
    IF data = Null
    THEN ThrowError(ReadingRoutes)
    ELSE IF "routes" \notin DOMAIN data
         THEN ThrowError(ReadingZero)
         ELSE IF Len(data.routes) = 0
              THEN ThrowError(ReadingGeometry)
              ELSE IF "geometry" \notin DOMAIN data.routes[1]
                   THEN Return(Undefined)
                   ELSE Return(data.routes[1].geometry)

(***************************************************************************)
(* The component's state after construction, lines 13-28 and the two       *)
(* mount effects, lines 30-62.                                             *)
(***************************************************************************)
initialViewport ==
    [latitude |-> defaultLocation.latitude,
     longitude |-> defaultLocation.longitude,
     width |-> "100vw",
     height |-> "100vh",
     zoom |-> 10,
     bearing |-> 0,
     pitch |-> 0]

\* An activation of fetchRoute that has not been started.
idleInvocation ==
    [pc |-> "idle", startLocation |-> "", endLocation |-> "",
     startCoords |-> Undefined, endCoords |-> Undefined,
     requests |-> <<>>, logged |-> ""]

noLookup == [called |-> FALSE]

noAnswer == [read |-> FALSE]

\* The mount effect of lines 44-62 has run: the position request is out
\* ("pending"), or the browser has no geolocation ("unsupported").
Init ==
    /\ viewport = initialViewport
    /\ selectedPark = Null
    /\ userPin = Null
    /\ startLocation = ""
    /\ endLocation = ""
    /\ route = Null
    /\ geocoder = FALSE
    /\ geolocation \in {"pending", "unsupported"}
    /\ inv = [i \in Invocations |-> idleInvocation]
    /\ lookup = noLookup
    /\ handled = noAnswer
    /\ lastEvent = [type |-> "mount"]

(***************************************************************************)
(* fetchRoute, lines 130-157: one action per stretch between two awaits.   *)
(***************************************************************************)
\* A catch block that starts the activation over.
caughtRetries(i) ==
    inv' = [inv EXCEPT ![i].pc = "geocodeStart",
                       ![i].startCoords = Undefined,
                       ![i].endCoords = Undefined,
                       ![i].requests = <<GeocodeRequest(inv[i].startLocation)>>,
                       ![i].logged = "Error in geocoding or fetching route:"]

\* The catch block of lines 153-155.
caught(i) ==
    inv' = [inv EXCEPT ![i].pc = "done",
                       ![i].logged = "Error in geocoding or fetching route:"]

\* A setter that keeps a route already shown.
setRouteOnce(geometry) == route' = IF route = Null THEN geometry ELSE route

\* setRoute, line 145.
setRoute(geometry) == route' = geometry

\* The guard of line 131 testing startLocation alone.
fetchRouteStartOnly(i) ==
    /\ inv[i].pc = "idle"
    /\ \A j \in 1..(i - 1) : inv[j].pc # "idle"
    /\ IF TruthyText(startLocation)
       THEN inv' = [inv EXCEPT ![i].pc = "geocodeStart",
                               ![i].startLocation = startLocation,
                               ![i].endLocation = endLocation,
                               ![i].requests = <<GeocodeRequest(startLocation)>>]
       ELSE inv' = [inv EXCEPT ![i].pc = "done"]
    /\ UNCHANGED <<startLocation, endLocation, route, lookup, handled>>
    /\ UNCHANGED uiVars

\* Show Route is clicked, lines 130-134: the closure reads the two texts
\* of the current render and, both non-empty, sends the first request.
fetchRoute(i) ==
    /\ inv[i].pc = "idle"
    /\ \A j \in 1..(i - 1) : inv[j].pc # "idle"
    /\ IF TruthyText(startLocation) /\ TruthyText(endLocation)
       THEN inv' = [inv EXCEPT ![i].pc = "geocodeStart",
                               ![i].startLocation = startLocation,
                               ![i].endLocation = endLocation,
                               ![i].requests = <<GeocodeRequest(startLocation)>>]
       ELSE inv' = [inv EXCEPT ![i].pc = "done"]
    /\ UNCHANGED <<startLocation, endLocation, route, lookup, handled>>
    /\ UNCHANGED uiVars

\* The second lookup made for the text the input holds when it is sent.
fetchRouteStartGeocodedLive(i) ==
    /\ inv[i].pc = "geocodeStart"
    /\ \E outcome \in GeocodeOutcomes(inv[i].startLocation) :
          LET r == geocodeLocation(outcome)
          IN  IF r.completion = "throw"
              THEN caught(i)
              ELSE inv' = [inv EXCEPT
                      ![i].pc = "geocodeEnd",
                      ![i].startCoords = r.value,
                      ![i].endLocation = endLocation,
                      ![i].requests = Append(@, GeocodeRequest(endLocation))]
    /\ UNCHANGED <<startLocation, endLocation, route, lookup, handled>>
    /\ UNCHANGED uiVars

\* The second lookup skipped when the first found nothing.
fetchRouteStartGeocodedShortCircuits(i) ==
    /\ inv[i].pc = "geocodeStart"
    /\ \E outcome \in GeocodeOutcomes(inv[i].startLocation) :
          LET r == geocodeLocation(outcome)
          IN  IF r.completion = "throw"
              THEN caught(i)
              ELSE IF Truthy(r.value)
                   THEN inv' = [inv EXCEPT
                           ![i].pc = "geocodeEnd",
                           ![i].startCoords = r.value,
                           ![i].requests = Append(@, GeocodeRequest(inv[i].endLocation))]
                   ELSE inv' = [inv EXCEPT
                           ![i].pc = "done",
                           ![i].startCoords = r.value,
                           ![i].logged = "Geocoding failed for one or both locations."]
    /\ UNCHANGED <<startLocation, endLocation, route, lookup, handled>>
    /\ UNCHANGED uiVars

\* The await of line 134 resumes with what geocodeLocation returned, and
\* line 135 sends the second geocoding request.
fetchRouteStartGeocoded(i) ==
    /\ inv[i].pc = "geocodeStart"
    /\ \E outcome \in GeocodeOutcomes(inv[i].startLocation) :
          LET r == geocodeLocation(outcome)
          IN  IF r.completion = "throw"
              THEN caught(i)
              ELSE inv' = [inv EXCEPT
                      ![i].pc = "geocodeEnd",
                      ![i].startCoords = r.value,
                      ![i].requests = Append(@, GeocodeRequest(inv[i].endLocation))]
    /\ UNCHANGED <<startLocation, endLocation, route, lookup, handled>>
    /\ UNCHANGED uiVars

\* The else branch of lines 150-152 also taking the shown route away.
fetchRouteEndGeocodedClears(i) ==
    /\ inv[i].pc = "geocodeEnd"
    /\ \E outcome \in GeocodeOutcomes(inv[i].endLocation) :
          LET r == geocodeLocation(outcome)
          IN  IF r.completion = "throw"
              THEN caught(i) /\ UNCHANGED route
              ELSE IF Truthy(inv[i].startCoords) /\ Truthy(r.value)
                   THEN /\ inv' = [inv EXCEPT
                              ![i].pc = "directions",
                              ![i].endCoords = r.value,
                              ![i].requests =
                                  Append(@, DirectionsRequest(inv[i].startCoords, r.value))]
                        /\ UNCHANGED route
                   ELSE /\ inv' = [inv EXCEPT
                              ![i].pc = "done",
                              ![i].endCoords = r.value,
                              ![i].logged = "Geocoding failed for one or both locations."]
                        /\ route' = Null
    /\ UNCHANGED <<startLocation, endLocation, lookup, handled>>
    /\ UNCHANGED uiVars

\* The await of line 135 resumes; lines 138-141 send the directions
\* request when both results are truthy, lines 150-152 log otherwise.
fetchRouteEndGeocoded(i) ==
    /\ inv[i].pc = "geocodeEnd"
    /\ \E outcome \in GeocodeOutcomes(inv[i].endLocation) :
          LET r == geocodeLocation(outcome)
          IN  IF r.completion = "throw"
              THEN caught(i)
              ELSE IF Truthy(inv[i].startCoords) /\ Truthy(r.value)
                   THEN inv' = [inv EXCEPT
                           ![i].pc = "directions",
                           ![i].endCoords = r.value,
                           ![i].requests =
                               Append(@, DirectionsRequest(inv[i].startCoords, r.value))]
                   ELSE inv' = [inv EXCEPT
                           ![i].pc = "done",
                           ![i].endCoords = r.value,
                           ![i].logged = "Geocoding failed for one or both locations."]
    /\ UNCHANGED <<startLocation, endLocation, route, lookup, handled>>
    /\ UNCHANGED uiVars

\* The await of line 139 resumes: fetch rejected (caught), or a response
\* whose body is then read, at line 144 (res.ok) or line 147.
fetchRouteResponded(i) ==
    /\ inv[i].pc = "directions"
    /\ \E res \in DirectionsResponses :
          IF res.fetch = "rejected"
          THEN caught(i)
          ELSE IF res.ok
               THEN inv' = [inv EXCEPT ![i].pc = "routeBody"]
               ELSE inv' = [inv EXCEPT ![i].pc = "errorBody"]
    /\ UNCHANGED <<startLocation, endLocation, route, lookup, handled>>
    /\ UNCHANGED uiVars

\* A success handler that takes the shown route away when the answer
\* cannot be used.
fetchRouteRouteParsedClears(i) ==
    /\ inv[i].pc = "routeBody"
    /\ \E body \in DirectionsBodies(inv[i].requests[3].path) :
          LET g == IF body.json = "rejected"
                   THEN ThrowError(UnexpectedToken)
                   ELSE firstRouteGeometry(body.data)
          IN  IF g.completion = "throw"
              THEN caught(i) /\ setRoute(Null)
              ELSE /\ setRoute(g.value)
                   /\ inv' = [inv EXCEPT ![i].pc = "done"]
    /\ UNCHANGED <<startLocation, endLocation, lookup, handled>>
    /\ UNCHANGED uiVars

\* The await of line 144 resumes with what res.json() yielded, and line
\* 145 commits the first candidate's geometry.
routeBodyParsed(i, body) ==
    /\ inv[i].pc = "routeBody"
    /\ LET g == IF body.json = "rejected"
                THEN ThrowError(UnexpectedToken)
                ELSE firstRouteGeometry(body.data)
       IN  IF g.completion = "throw"
           THEN caught(i) /\ UNCHANGED route
           ELSE /\ setRoute(g.value)
                /\ inv' = [inv EXCEPT ![i].pc = "done"]
    /\ UNCHANGED <<startLocation, endLocation, lookup>>
    /\ UNCHANGED uiVars

fetchRouteRouteParsed(i) ==
    /\ inv[i].pc = "routeBody"
    /\ \E body \in DirectionsBodies(inv[i].requests[3].path) : routeBodyParsed(i, body)
    /\ UNCHANGED handled

\* The same step, observed: which answer was read and what route was
\* shown when it was.
fetchRouteRouteParsedObserved(i) ==
    /\ inv[i].pc = "routeBody"
    /\ \E body \in DirectionsBodies(inv[i].requests[3].path) :
          /\ routeBodyParsed(i, body)
          /\ handled' = [read |-> TRUE, activation |-> i, body |-> body,
                         route |-> route]

\* The else branch of lines 146-149 also taking the shown route away.
fetchRouteErrorParsedClears(i) ==
    /\ inv[i].pc = "errorBody"
    /\ \E parsed \in BOOLEAN :
          IF parsed
          THEN inv' = [inv EXCEPT ![i].pc = "done",
                                 ![i].logged = "Error fetching route:"]
          ELSE caught(i)
    /\ route' = Null
    /\ UNCHANGED <<startLocation, endLocation, lookup, handled>>
    /\ UNCHANGED uiVars

\* The await of line 147 resumes and line 148 logs the error body.
fetchRouteErrorParsed(i) ==
    /\ inv[i].pc = "errorBody"
    /\ \E parsed \in BOOLEAN :
          IF parsed
          THEN inv' = [inv EXCEPT ![i].pc = "done",
                                 ![i].logged = "Error fetching route:"]
          ELSE caught(i)
    /\ UNCHANGED <<startLocation, endLocation, route, lookup, handled>>
    /\ UNCHANGED uiVars

\* The two text inputs, lines 163-176.
setStartLocation(value) ==
    /\ startLocation' = value
    /\ UNCHANGED <<endLocation, route, inv, lookup, handled>>
    /\ UNCHANGED uiVars

setEndLocation(value) ==
    /\ endLocation' = value
    /\ UNCHANGED <<startLocation, route, inv, lookup, handled>>
    /\ UNCHANGED uiVars

\* geocodeLocation called on a text, as lines 134 and 135 call it, and
\* taken alone: what it was given and how it ended.
geocodeLookup(location) ==
    /\ TruthyText(location)
    /\ \E outcome \in GeocodeOutcomes(location) :
          lookup' = [called |-> TRUE, location |-> location, outcome |-> outcome,
                     result |-> geocodeLocation(outcome)]
    /\ UNCHANGED <<startLocation, endLocation, route, inv, handled>>
    /\ UNCHANGED uiVars

geocodeStartLocation == geocodeLookup(startLocation)

geocodeEndLocation == geocodeLookup(endLocation)

\* The steps of activation i.
fetchRouteStep(i) ==
    \/ fetchRoute(i)
    \/ fetchRouteStartGeocoded(i)
    \/ fetchRouteEndGeocoded(i)
    \/ fetchRouteResponded(i)
    \/ fetchRouteRouteParsed(i)
    \/ fetchRouteErrorParsed(i)

NextInputs ==
    \/ \E value \in StartTexts : setStartLocation(value)
    \/ \E value \in EndTexts : setEndLocation(value)

(***************************************************************************)
(* The map, keyboard and geolocation handlers.                             *)
(***************************************************************************)
\* parkData.features, lines 4 and 192-196: the bundled park dataset.
Parks ==
    { [properties |-> [PARK_ID |-> 960, NAME |-> "Bearbrook Skateboard Park"],
       geometry |-> [coordinates |-> <<-754412, 453469>>]],
      [properties |-> [PARK_ID |-> 1219, NAME |-> "Bob MacQuarrie Skateboard Park"],
       geometry |-> [coordinates |-> <<-755460, 454677>>]] }

\* The key of a keydown event.
Keys == {"Escape", "Enter"}

\* position.coords of the device, lines 50-51.
DevicePositions ==
    { [latitude |-> 438971, longitude |-> -789429] }

\* Where the user clicks the map or a search result lies: <<lon, lat>>.
MapPoints == { <<-750000, 450000>>, PlaceCoords("Toronto") }

\* mapbox-gl's LngLat object for a point: properties lng and lat.
LngLat(point) == [js |-> "object", lng |-> point[1], lat |-> point[2]]

\* event.lngLat of a map click, as the map library delivers it. The
\* library is not part of the repository, and its releases differ: those
\* with the onViewportChange API deliver the array [lon, lat]; those with
\* the onMove / evt.viewState / mapboxAccessToken API, which lines 116,
\* 184 and 185 use, deliver an LngLat object.
ClickLngLats ==
    { Arr(point) : point \in MapPoints } \cup { LngLat(point) : point \in MapPoints }

\* evt.viewState of a move event: the camera after a drag, zoom or rotate.
ViewStates ==
    { [longitude |-> -761000, latitude |-> 449000, zoom |-> 8,
       bearing |-> 30, pitch |-> 20] }

\* Object spread { ...prev, ...update }: update's properties win.
Merge(prev, update) ==
    [k \in DOMAIN prev \cup DOMAIN update |->
        IF k \in DOMAIN update THEN update[k] ELSE prev[k]]

\* setViewport with an updater function, lines 48, 100 and 114: applied to
\* the viewport current when it runs.
setViewport(update) == viewport' = Merge(viewport, update)

setSelectedPark(park) == selectedPark' = park

setUserPin(pin) == userPin' = pin

\* The listener testing for the legacy key name.
listenerEsc(key) ==
    /\ IF key = "Esc"
       THEN setSelectedPark(Null)
       ELSE UNCHANGED selectedPark
    /\ lastEvent' = [type |-> "keydown", key |-> key, selectedPark |-> selectedPark]
    /\ UNCHANGED <<viewport, userPin, geocoder, geolocation>>
    /\ UNCHANGED <<startLocation, endLocation, route, inv, lookup, handled>>

\* The keydown listener of lines 31-35.
listener(key) ==
    /\ IF key = "Escape"
       THEN setSelectedPark(Null)
       ELSE UNCHANGED selectedPark
    /\ lastEvent' = [type |-> "keydown", key |-> key, selectedPark |-> selectedPark]
    /\ UNCHANGED <<viewport, userPin, geocoder, geolocation>>
    /\ UNCHANGED <<startLocation, endLocation, route, inv, lookup, handled>>

\* A success callback that spreads the viewport of the render it was
\* created in, the first, instead of the one current when it runs.
geolocationSuccessStale(position) ==
    /\ geolocation = "pending"
    /\ geolocation' = "delivered"
    /\ viewport' = Merge(initialViewport, [latitude |-> position.latitude,
                                           longitude |-> position.longitude,
                                           zoom |-> 12])
    /\ lastEvent' = [type |-> "position", coords |-> position, viewport |-> viewport]
    /\ UNCHANGED <<selectedPark, userPin, geocoder>>
    /\ UNCHANGED <<startLocation, endLocation, route, inv, lookup, handled>>

\* The success callback of getCurrentPosition, lines 47-54.
geolocationSuccess(position) ==
    /\ geolocation = "pending"
    /\ geolocation' = "delivered"
    /\ setViewport([latitude |-> position.latitude,
                    longitude |-> position.longitude,
                    zoom |-> 12])
    /\ lastEvent' = [type |-> "position", coords |-> position, viewport |-> viewport]
    /\ UNCHANGED <<selectedPark, userPin, geocoder>>
    /\ UNCHANGED <<startLocation, endLocation, route, inv, lookup, handled>>

\* An error callback that zooms in on the default location.
geolocationErrorRecenters ==
    /\ geolocation = "pending"
    /\ geolocation' = "failed"
    /\ setViewport([latitude |-> defaultLocation.latitude,
                    longitude |-> defaultLocation.longitude,
                    zoom |-> 12])
    /\ lastEvent' = [type |-> "positionError"]
    /\ UNCHANGED <<selectedPark, userPin, geocoder>>
    /\ UNCHANGED <<startLocation, endLocation, route, inv, lookup, handled>>

\* The error callback of getCurrentPosition, lines 55-57.
geolocationError ==
    /\ geolocation = "pending"
    /\ geolocation' = "failed"
    /\ lastEvent' = [type |-> "positionError"]
    /\ UNCHANGED <<viewport, selectedPark, userPin, geocoder>>
    /\ UNCHANGED <<startLocation, endLocation, route, inv, lookup, handled>>

\* handleMapLoad, lines 88-111: the map is ready, once; the search control
\* is attached and its result events are listened to.
handleMapLoad ==
    /\ ~geocoder
    /\ geocoder' = TRUE
    /\ lastEvent' = [type |-> "load"]
    /\ UNCHANGED <<viewport, selectedPark, userPin, geolocation>>
    /\ UNCHANGED <<startLocation, endLocation, route, inv, lookup, handled>>

\* A result handler that builds the viewport anew instead of merging.
geocoderResultResetsView(coordinates) ==
    /\ geocoder
    /\ viewport' = Merge(initialViewport, [latitude |-> coordinates[2],
                                           longitude |-> coordinates[1],
                                           zoom |-> 12])
    /\ setUserPin([latitude |-> coordinates[2], longitude |-> coordinates[1]])
    /\ lastEvent' = [type |-> "result", coordinates |-> coordinates]
    /\ UNCHANGED <<selectedPark, geocoder, geolocation>>
    /\ UNCHANGED <<startLocation, endLocation, route, inv, lookup, handled>>

\* The search control's result handler, lines 98-110.
geocoderResult(coordinates) ==
    /\ geocoder
    /\ setViewport([latitude |-> coordinates[2],
                    longitude |-> coordinates[1],
                    zoom |-> 12])
    /\ setUserPin([latitude |-> coordinates[2], longitude |-> coordinates[1]])
    /\ lastEvent' = [type |-> "result", coordinates |-> coordinates]
    /\ UNCHANGED <<selectedPark, geocoder, geolocation>>
    /\ UNCHANGED <<startLocation, endLocation, route, inv, lookup, handled>>

\* handleMove, lines 113-118.
handleMove(viewState) ==
    /\ setViewport(viewState)
    /\ lastEvent' = [type |-> "move", viewState |-> viewState]
    /\ UNCHANGED <<selectedPark, userPin, geocoder, geolocation>>
    /\ UNCHANGED <<startLocation, endLocation, route, inv, lookup, handled>>

\* A map click that also dismisses the popup, as the popup does by itself
\* without closeOnClick={false}.
handleMapClickCloses(lngLat) ==
    /\ IF lngLat.js = "array"
       THEN LET longitude == lngLat.elems[1]
                latitude == lngLat.elems[2]
            IN  setUserPin([latitude |-> latitude, longitude |-> longitude])
       ELSE UNCHANGED userPin
    /\ setSelectedPark(Null)
    /\ lastEvent' = [type |-> "click", lngLat |-> lngLat, userPin |-> userPin]
    /\ UNCHANGED <<viewport, geocoder, geolocation>>
    /\ UNCHANGED <<startLocation, endLocation, route, inv, lookup, handled>>

\* handleMapClick, lines 121-127. Line 122 destructures event.lngLat as an
\* iterable, const [longitude, latitude] = event.lngLat: on an array it
\* binds the two elements; an LngLat object is not iterable, the
\* destructuring is a TypeError, the handler is left before setUserPin
\* and no state changes.
handleMapClick(lngLat) ==
    /\ IF lngLat.js = "array"
       THEN LET longitude == lngLat.elems[1]
                latitude == lngLat.elems[2]
            IN  setUserPin([latitude |-> latitude, longitude |-> longitude])
       ELSE UNCHANGED userPin
    /\ lastEvent' = [type |-> "click", lngLat |-> lngLat, userPin |-> userPin]
    /\ UNCHANGED <<viewport, selectedPark, geocoder, geolocation>>
    /\ UNCHANGED <<startLocation, endLocation, route, inv, lookup, handled>>

\* A marker button that closes the popup of the park already shown.
markerClickToggles(park) ==
    /\ setSelectedPark(IF selectedPark = park THEN Null ELSE park)
    /\ lastEvent' = [type |-> "markerClick", park |-> park,
                     selectedPark |-> selectedPark]
    /\ UNCHANGED <<viewport, userPin, geocoder, geolocation>>
    /\ UNCHANGED <<startLocation, endLocation, route, inv, lookup, handled>>

\* The onClick of a park's marker button, lines 200-203.
markerClick(park) ==
    /\ setSelectedPark(park)
    /\ lastEvent' = [type |-> "markerClick", park |-> park,
                     selectedPark |-> selectedPark]
    /\ UNCHANGED <<viewport, userPin, geocoder, geolocation>>
    /\ UNCHANGED <<startLocation, endLocation, route, inv, lookup, handled>>

\* The popup's onClose, line 221; the popup is rendered for a selected
\* park only, line 217.
popupClose ==
    /\ Truthy(selectedPark)
    /\ setSelectedPark(Null)
    /\ lastEvent' = [type |-> "popupClose", selectedPark |-> selectedPark]
    /\ UNCHANGED <<viewport, userPin, geocoder, geolocation>>
    /\ UNCHANGED <<startLocation, endLocation, route, inv, lookup, handled>>

NextMap ==
    \/ \E key \in Keys : listener(key)
    \/ \E position \in DevicePositions : geolocationSuccess(position)
    \/ geolocationError
    \/ handleMapLoad
    \/ \E coordinates \in MapPoints : geocoderResult(coordinates)
    \/ \E viewState \in ViewStates : handleMove(viewState)
    \/ \E lngLat \in ClickLngLats : handleMapClick(lngLat)
    \/ \E park \in Parks : markerClick(park)
    \/ popupClose

(***************************************************************************)
(* Specifications. Next is the whole component. The product of its parts   *)
(* is too large to enumerate, so each property is checked under the part   *)
(* of Next it is about:                                                    *)
(*   SpecRoute    the inputs and MaxInv overlapping activations of         *)
(*                fetchRoute;                                              *)
(*   SpecMap      the map, keyboard and geolocation handlers;              *)
(*   SpecApp      every handler, with one activation of fetchRoute;        *)
(*   SpecUnmoved  SpecMap without map moves and search results;            *)
(*   SpecLookup   geocodeLocation alone, on the text of either input;      *)
(*   SpecAnswered MaxInv overlapping activations for one pair of texts,    *)
(*                every request being answered;                            *)
(*   SpecObserved the same without fairness, the directions answer read    *)
(*                being kept in handled.                                   *)
(***************************************************************************)
NextRoute ==
    \/ NextInputs
    \/ \E i \in Invocations : fetchRouteStep(i)

NextUnmoved ==
    \/ \E key \in Keys : listener(key)
    \/ \E position \in DevicePositions : geolocationSuccess(position)
    \/ geolocationError
    \/ handleMapLoad
    \/ \E lngLat \in ClickLngLats : handleMapClick(lngLat)
    \/ \E park \in Parks : markerClick(park)
    \/ popupClose

NextApp ==
    \/ NextMap
    \/ NextInputs
    \/ fetchRouteStep(1)

NextLookup ==
    \/ NextInputs
    \/ geocodeStartLocation
    \/ geocodeEndLocation

Next == NextRoute \/ NextMap

Spec == Init /\ [][Next]_vars

SpecRoute == Init /\ [][NextRoute]_vars

SpecMap == Init /\ [][NextMap]_vars

SpecApp == Init /\ [][NextApp]_vars

SpecUnmoved == Init /\ [][NextUnmoved]_vars

SpecLookup == Init /\ [][NextLookup]_vars

\* Every request is answered: the promise an activation awaits settles,
\* with a response or with an error, and the event loop then resumes the
\* activation. Clicks and text edits are the user's and need not happen.
fetchRouteResumes(i) ==
    \/ fetchRouteStartGeocoded(i)
    \/ fetchRouteEndGeocoded(i)
    \/ fetchRouteResponded(i)
    \/ fetchRouteRouteParsed(i)
    \/ fetchRouteErrorParsed(i)

\* The user types one place into each input and clicks Show Route.
NextAnswered ==
    \/ setStartLocation("Ottawa")
    \/ setEndLocation("Toronto")
    \/ \E i \in Invocations : fetchRouteStep(i)

\* The same with the reading of the directions answer observed.
NextObserved ==
    \/ setStartLocation("Ottawa")
    \/ setEndLocation("Toronto")
    \/ \E i \in Invocations :
          \/ fetchRoute(i)
          \/ fetchRouteStartGeocoded(i)
          \/ fetchRouteEndGeocoded(i)
          \/ fetchRouteResponded(i)
          \/ fetchRouteRouteParsedObserved(i)
          \/ fetchRouteErrorParsed(i)

SpecObserved == Init /\ [][NextObserved]_vars

SpecAnswered ==
    /\ Init
    /\ [][NextAnswered]_vars
    /\ \A i \in Invocations : WF_vars(fetchRouteResumes(i))

(***************************************************************************)
(* Properties.                                                             *)
(***************************************************************************)
\* The directions requests an activation has sent.
directionsRequests(activation) ==
    SelectSeq(activation.requests, LAMBDA r : r.endpoint = "directions")

\* Both geocode lookups of the activation returned coordinates.
bothGeocoded(activation) ==
    activation.startCoords.js = "array" /\ activation.endCoords.js = "array"

\* The activation has returned: nothing of it changes any more.
doneIsFinal(i) == inv[i].pc = "done" => inv'[i] = inv[i]

\* The geometry the directions service ranks first for a route from a to b.
directGeometry(a, b) == [type |-> "LineString", coordinates |-> <<a, b>>]

\* The activation has committed a route: it returned having logged nothing
\* after its directions request.
committed(activation) ==
    /\ activation.pc = "done"
    /\ activation.logged = ""
    /\ Len(activation.requests) = 3

\* C1: an activation whose two geocode lookups returned coordinates A and B
\* has sent exactly one directions request, three requests in all, and the
\* request's path is A's longitude and latitude, then B's.
C1_OneDirectionsRequestStartThenEnd ==
    \A i \in Invocations :
        bothGeocoded(inv[i]) =>
            LET A == inv[i].startCoords.elems
                B == inv[i].endCoords.elems
                sent == directionsRequests(inv[i])
            IN  /\ Len(sent) = 1
                /\ Len(inv[i].requests) = 3
                /\ inv[i].requests[3] = sent[1]
                /\ sent[1].path = <<A[1], A[2], B[1], B[2]>>

\* An activation has returned after geocoding two different places and
\* sending its one directions request.
C1_Witness ==
    \E i \in Invocations :
        /\ inv[i].pc = "done"
        /\ bothGeocoded(inv[i])
        /\ inv[i].startCoords # inv[i].endCoords
        /\ Len(directionsRequests(inv[i])) = 1

\* C2: a Show Route click while either text is empty returns at once having
\* sent no request, changes no state variable and no other activation, and
\* the returned activation never sends anything later.
C2_EmptyInputIsNoOp ==
    [][\A i \in Invocations :
          /\ (/\ inv[i].pc = "idle"
              /\ inv'[i].pc # "idle"
              /\ (startLocation = "" \/ endLocation = ""))
             => /\ inv'[i].pc = "done"
                /\ inv'[i].requests = <<>>
                /\ \A j \in Invocations \ {i} : inv'[j] = inv[j]
                /\ UNCHANGED <<route, viewport, selectedPark, userPin,
                               startLocation, endLocation, geocoder, geolocation>>
          /\ doneIsFinal(i)]_vars

\* A click with an empty text has returned, no request sent, while a route
\* fetched earlier is still shown.
C2_Witness ==
    \E i \in Invocations :
        /\ inv[i].pc = "done"
        /\ inv[i].requests = <<>>
        /\ (startLocation = "" \/ endLocation = "")
        /\ Truthy(route)

\* C3: every step of an activation that holds a not-found (null) geocode
\* result leaves route unchanged and sends no directions request; the step
\* that receives the second result with either result null returns.
C3_NotFoundNeverCallsDirections ==
    [][\A i \in Invocations :
          /\ (/\ inv'[i] # inv[i]
              /\ (inv'[i].startCoords = Null \/ inv'[i].endCoords = Null))
             => /\ route' = route
                /\ Len(directionsRequests(inv'[i])) = 0
                /\ inv[i].pc = "geocodeEnd" => inv'[i].pc = "done"
          /\ doneIsFinal(i)]_vars

\* An activation found its start, did not find its end and returned with
\* two requests sent, while a route fetched earlier is still shown.
C3_Witness ==
    \E i \in Invocations :
        /\ inv[i].pc = "done"
        /\ inv[i].startCoords.js = "array"
        /\ inv[i].endCoords = Null
        /\ Len(inv[i].requests) = 2
        /\ Truthy(route)

\* C4: the step that receives a non-success directions response and the
\* step that reads its body leave route unchanged and send no request, and
\* the second returns.
C4_HttpErrorKeepsRoute ==
    [][\A i \in Invocations :
          /\ (\/ inv[i].pc = "directions" /\ inv'[i].pc = "errorBody"
              \/ inv[i].pc = "errorBody" /\ inv'[i] # inv[i])
             => /\ route' = route
                /\ inv'[i].requests = inv[i].requests
                /\ inv[i].pc = "errorBody" => inv'[i].pc = "done"
          /\ doneIsFinal(i)]_vars

\* An activation has logged the error body of a non-success response and
\* returned, while a route fetched earlier is still shown.
C4_Witness ==
    \E i \in Invocations :
        /\ inv[i].pc = "done"
        /\ inv[i].logged = "Error fetching route:"
        /\ Len(inv[i].requests) = 3
        /\ Truthy(route)

\* C5: geocodeLocation always returns; on a transport failure, an
\* unparsable body, a body that is null or has no features, an empty list
\* or a first feature without geometry it returns null; and when it returns
\* coordinates the list is non-empty and they are its first candidate's.
C5_GeocodeNeverThrows ==
    lookup.called =>
        LET o == lookup.outcome
            r == lookup.result
            failed == o.fetch = "rejected" \/ o.json = "rejected"
            noList == \/ failed
                      \/ o.data = Null
                      \/ "features" \notin DOMAIN o.data
                      \/ Len(o.data.features) = 0
            noGeometry == ~noList /\ "geometry" \notin DOMAIN o.data.features[1]
        IN  /\ r.completion = "return"
            /\ (noList \/ noGeometry) => r.value = Null
            /\ r.value.js = "array" =>
                   /\ ~noList
                   /\ r.value.elems = o.data.features[1].geometry.coordinates

\* geocodeLocation was given a list whose first feature has no geometry
\* and returned null.
C5_Witness ==
    /\ lookup.called
    /\ lookup.outcome.fetch = "resolved"
    /\ lookup.outcome.json = "resolved"
    /\ lookup.outcome.data # Null
    /\ "features" \in DOMAIN lookup.outcome.data
    /\ Len(lookup.outcome.data.features) > 1
    /\ "geometry" \notin DOMAIN lookup.outcome.data.features[1]
    /\ lookup.result = [completion |-> "return", value |-> Null]

\* C6: route changes only in the step in which an activation handles its
\* successful directions response, and that step sets it to the direct
\* geometry between that activation's own coordinates, whatever route is
\* shown and whichever activation was started first: the response handled
\* last decides.
C6_LastHandledResponseWins ==
    [][/\ \A i \in Invocations :
             (inv[i].pc = "routeBody" /\ committed(inv'[i]))
                => route' = directGeometry(inv[i].startCoords.elems,
                                           inv[i].endCoords.elems)
       /\ route' # route =>
             \E i \in Invocations : inv[i].pc = "routeBody" /\ committed(inv'[i])]_vars

\* Both activations committed different routes and the one shown is that
\* of the first click: the second click's response was handled first.
C6_Witness ==
    /\ committed(inv[1])
    /\ committed(inv[2])
    /\ inv[1].requests[3] # inv[2].requests[3]
    /\ route = directGeometry(inv[1].startCoords.elems, inv[1].endCoords.elems)

\* C7: a keydown of Escape sets selectedPark to null, whatever it was, and
\* changes neither viewport, userPin, route, the two texts, the
\* activations of fetchRoute nor the search control and geolocation state.
C7_EscapeClearsSelectedParkOnly ==
    [][(/\ lastEvent' # lastEvent
        /\ lastEvent'.type = "keydown"
        /\ lastEvent'.key = "Escape")
       => /\ selectedPark' = Null
          /\ UNCHANGED <<viewport, userPin, route, startLocation, endLocation,
                         inv, geocoder, geolocation>>]_vars

\* Escape was pressed while a park's popup was shown, with a pin placed,
\* a route shown and a text typed: the popup is gone, the rest is there.
C7_Witness ==
    /\ lastEvent.type = "keydown"
    /\ lastEvent.key = "Escape"
    /\ lastEvent.selectedPark \in Parks
    /\ selectedPark = Null
    /\ Truthy(userPin)
    /\ Truthy(route)
    /\ startLocation # ""

\* C8: activating the marker of the park activated just before leaves
\* every state variable as the first activation left it, selectedPark
\* being that park.
C8_MarkerActivationIdempotent ==
    [][(/\ lastEvent.type = "markerClick"
        /\ lastEvent'.type = "markerClick"
        /\ lastEvent'.park = lastEvent.park
        /\ lastEvent' # lastEvent)
       => /\ selectedPark = lastEvent.park
          /\ UNCHANGED <<viewport, selectedPark, userPin, route, startLocation,
                         endLocation, inv, geocoder, geolocation>>]_vars

\* A park's marker was activated while that park was already shown, and
\* it is still shown.
C8_Witness ==
    /\ lastEvent.type = "markerClick"
    /\ lastEvent.selectedPark = lastEvent.park
    /\ selectedPark = lastEvent.park

\* The longitude and latitude of the point a click event is at.
clickLongitude(lngLat) == IF lngLat.js = "array" THEN lngLat.elems[1] ELSE lngLat.lng
clickLatitude(lngLat) == IF lngLat.js = "array" THEN lngLat.elems[2] ELSE lngLat.lat

\* C9: after a map click at (lon, lat) userPin is
\* {latitude: lat, longitude: lon}, whatever pin was there.
C9_MapClickSetsPin ==
    lastEvent.type = "click" =>
        userPin = [latitude |-> clickLatitude(lastEvent.lngLat),
                   longitude |-> clickLongitude(lastEvent.lngLat)]

\* C10: without map moves and search results, as long as no position has
\* been delivered (the request is pending, has failed, or geolocation is
\* unsupported) the viewport is the default one: latitude 45.4211,
\* longitude -75.6903, zoom 10.
C10_NoPositionKeepsDefaultViewport ==
    geolocation \in {"pending", "failed", "unsupported"} =>
        viewport = [latitude |-> 454211, longitude |-> -756903,
                    width |-> "100vw", height |-> "100vh",
                    zoom |-> 10, bearing |-> 0, pitch |-> 0]

\* The position request has failed, the user has clicked the map since,
\* and the viewport is at the default location.
C10_Witness ==
    /\ geolocation = "failed"
    /\ lastEvent.type = "click"
    /\ Truthy(userPin)
    /\ viewport.latitude = 454211
    /\ viewport.longitude = -756903
    /\ viewport.zoom = 10

\* C11: once route holds a geometry it holds one in every later state, and
\* the only step that changes route is the one in which an activation
\* handles its successful directions response, which sets it to the first
\* candidate's geometry for that activation's request.
C11_RouteNeverCleared ==
    [][/\ Truthy(route) => Truthy(route')
       /\ route' # route =>
             \E i \in Invocations :
                /\ inv[i].pc = "routeBody"
                /\ committed(inv'[i])
                /\ route' = Direct(inv[i].requests[3].path)]_vars

\* The first activation committed its route; the second then got as far
\* as its directions request and ended in the catch block; the first
\* activation's route is still shown.
C11_Witness ==
    /\ committed(inv[1])
    /\ inv[2].pc = "done"
    /\ Len(inv[2].requests) = 3
    /\ inv[2].logged = "Error in geocoding or fetching route:"
    /\ route = Direct(inv[1].requests[3].path)

\* How far an activation has come.
rank(activation) ==
    CASE activation.pc = "idle" -> 0
      [] activation.pc = "geocodeStart" -> 1
      [] activation.pc = "geocodeEnd" -> 2
      [] activation.pc = "directions" -> 3
      [] activation.pc \in {"routeBody", "errorBody"} -> 4
      [] activation.pc = "done" -> 5

\* How many of its requests have been answered: an activation waiting at
\* the await of line 134, 135 or 139 waits for the request it sent last.
answered(activation) ==
    IF activation.pc \in {"geocodeStart", "geocodeEnd", "directions"}
    THEN Len(activation.requests) - 1
    ELSE Len(activation.requests)

geocodeRequests(activation) ==
    SelectSeq(activation.requests, LAMBDA r : r.endpoint = "geocoding")

\* C12: an activation sends one request per step, each only in the step in
\* which the one before it is answered: the start lookup at the click, the
\* end lookup when the start lookup completes, whatever it returned, the
\* directions request when the end lookup completes with both results
\* coordinates. At most one request of an activation is unanswered, and an
\* activation with non-empty texts that has returned has sent exactly two
\* lookups and at most one directions request.
C12_RequestsSequential ==
    [][\A i \in Invocations :
          LET before == inv[i]
              after == inv'[i]
              n == Len(before.requests)
          IN  /\ Len(after.requests) \in {n, n + 1}
              /\ SubSeq(after.requests, 1, n) = before.requests
              /\ Len(after.requests) - answered(after) \in {0, 1}
              /\ before.pc = "geocodeStart" /\ after # before =>
                    /\ Len(after.requests) = 2
                    /\ after.requests[2] = GeocodeRequest(before.endLocation)
              /\ Len(after.requests) = n + 1 =>
                    /\ n - answered(before) = 1 \/ before.pc = "idle"
                    /\ n = 0 => /\ before.pc = "idle"
                                /\ after.requests[1] = GeocodeRequest(startLocation)
                    /\ n = 1 => before.pc = "geocodeStart"
                    /\ n = 2 => /\ before.pc = "geocodeEnd"
                                /\ after.requests[3].endpoint = "directions"
                                /\ bothGeocoded(after)
                    /\ n < 3
              /\ (after.pc = "done" /\ after.startLocation # "") =>
                    /\ Len(geocodeRequests(after)) = 2
                    /\ Len(directionsRequests(after)) \in {0, 1}]_vars

\* The start lookup found nothing and the end lookup has been sent all
\* the same: two requests, one unanswered.
C12_Witness ==
    \E i \in Invocations :
        /\ inv[i].pc = "geocodeEnd"
        /\ inv[i].startCoords = Null
        /\ inv[i].requests = <<GeocodeRequest(inv[i].startLocation),
                               GeocodeRequest(inv[i].endLocation)>>

\* The step is one in which activation i meets a failure: a lookup that
\* found nothing, a transport error, or a non-success status.
failureStep(i) ==
    /\ inv'[i] # inv[i]
    /\ \/ inv'[i].logged # inv[i].logged
       \/ inv'[i].pc = "errorBody"
       \/ inv'[i].startCoords = Null /\ inv[i].pc = "geocodeStart"

\* C13: every step of an activation takes it further and never back, it
\* sends three requests at most, a step that meets a failure sends no
\* request again, a returned activation stays returned, the next click and
\* the text inputs are still handled after it, and, every request being
\* answered, no activation stays under way for ever: started, it returns.
C13_TerminatesWithoutRetry ==
    /\ [][\A i \in Invocations :
             /\ inv'[i] # inv[i] => rank(inv'[i]) > rank(inv[i])
             /\ Len(inv'[i].requests) <= 3
             /\ failureStep(i) =>
                   \A k \in 1..Len(inv'[i].requests) :
                      \A m \in 1..(k - 1) : inv'[i].requests[m] # inv'[i].requests[k]
             /\ doneIsFinal(i)
             /\ inv[i].pc = "done" =>
                   /\ ENABLED NextInputs
                   /\ (i < MaxInv /\ inv[i + 1].pc = "idle") => ENABLED fetchRoute(i + 1)]_vars
    /\ \A i \in Invocations : []<>(inv[i].pc \in {"idle", "done"})

\* An activation returned through the catch block after three requests,
\* and the click after it has started the next activation.
C13_Witness ==
    /\ inv[1].pc = "done"
    /\ Len(inv[1].requests) = 3
    /\ inv[1].logged = "Error in geocoding or fetching route:"
    /\ inv[2].pc = "geocodeStart"

\* C14: selectedPark is null at the start and always null or a park of the
\* dataset; a marker activation sets it to that marker's park whatever was
\* shown, a popup close and an Escape keydown set it to null, and no other
\* step changes it: not a map click, a map move, a search result, a
\* position or position error, another key, a text edit or a step of
\* fetchRoute.
C14_SelectedParkMachine ==
    /\ selectedPark = Null
    /\ [][/\ selectedPark' = Null \/ selectedPark' \in Parks
          /\ IF lastEvent' = lastEvent
             THEN selectedPark' = selectedPark
             ELSE CASE lastEvent'.type = "markerClick" ->
                          selectedPark' = lastEvent'.park
                    [] lastEvent'.type = "popupClose" ->
                          selectedPark # Null /\ selectedPark' = Null
                    [] lastEvent'.type = "keydown" /\ lastEvent'.key = "Escape" ->
                          selectedPark' = Null
                    [] OTHER -> selectedPark' = selectedPark]_vars

\* A marker was activated while another park's popup was shown, and the
\* popup now shows the marker's park; a route has been fetched meanwhile.
C14_Witness ==
    /\ lastEvent.type = "markerClick"
    /\ lastEvent.selectedPark \in Parks
    /\ lastEvent.selectedPark # lastEvent.park
    /\ selectedPark = lastEvent.park
    /\ Truthy(route)
    /\ Truthy(userPin)

\* C15: userPin is null at the start; once a pin it never is null again; a
\* map click at (lon, lat) and a search result at (lon, lat) leave it
\* {latitude: lat, longitude: lon}; and no other step changes it.
C15_UserPinLastClickOrResult ==
    /\ userPin = Null
    /\ [][/\ Truthy(userPin) => Truthy(userPin')
          /\ IF lastEvent' = lastEvent
             THEN userPin' = userPin
             ELSE CASE lastEvent'.type = "click" ->
                          userPin' = [latitude |-> clickLatitude(lastEvent'.lngLat),
                                      longitude |-> clickLongitude(lastEvent'.lngLat)]
                    [] lastEvent'.type = "result" ->
                          userPin' = [latitude |-> lastEvent'.coordinates[2],
                                      longitude |-> lastEvent'.coordinates[1]]
                    [] OTHER -> userPin' = userPin]_vars

\* C16: a search result at (lon, lat) leaves viewport and userPin both at
\* latitude lat and longitude lon and the zoom at 12, and changes neither
\* the viewport's bearing, pitch, width and height, nor selectedPark, nor
\* route.
C16_SearchResultRecentersAndPins ==
    [][(lastEvent'.type = "result" /\ lastEvent' # lastEvent) =>
          LET lon == lastEvent'.coordinates[1]
              lat == lastEvent'.coordinates[2]
          IN  /\ viewport'.latitude = lat /\ viewport'.longitude = lon
              /\ userPin' = [latitude |-> lat, longitude |-> lon]
              /\ viewport'.zoom = 12
              /\ viewport'.bearing = viewport.bearing
              /\ viewport'.pitch = viewport.pitch
              /\ viewport'.width = viewport.width
              /\ viewport'.height = viewport.height
              /\ DOMAIN viewport' = DOMAIN viewport
              /\ UNCHANGED <<selectedPark, route>>]_vars

\* A search result arrived after the map was rotated, with a popup and a
\* route shown: viewport and pin are at the result, zoom 12, the rotation,
\* the popup and the route are as they were.
C16_Witness ==
    /\ lastEvent.type = "result"
    /\ viewport.longitude = lastEvent.coordinates[1]
    /\ viewport.latitude = lastEvent.coordinates[2]
    /\ userPin = [latitude |-> viewport.latitude, longitude |-> viewport.longitude]
    /\ viewport.zoom = 12
    /\ viewport.bearing = 30
    /\ viewport.pitch = 20
    /\ selectedPark \in Parks
    /\ Truthy(route)

\* C17: the position callback runs once at most, for the pending request,
\* which no step makes again; it sets latitude and longitude to the
\* device's and zoom to 12 in the viewport current at that moment, moved or
\* recentered or not, keeps its bearing, pitch, width and height, and
\* changes nothing else.
C17_LatePositionMergedIntoCurrentViewport ==
    [][/\ (lastEvent'.type = "position" /\ lastEvent' # lastEvent) =>
             /\ geolocation = "pending" /\ geolocation' = "delivered"
             /\ lastEvent'.viewport = viewport
             /\ viewport' = [viewport EXCEPT
                                !.latitude = lastEvent'.coords.latitude,
                                !.longitude = lastEvent'.coords.longitude,
                                !.zoom = 12]
             /\ UNCHANGED <<selectedPark, userPin, route, startLocation,
                            endLocation, inv, geocoder>>
       /\ geolocation # "pending" => geolocation' = geolocation
       /\ geolocation' # geolocation => geolocation' \in {"delivered", "failed"}]_vars

\* The position arrived after a search result had recentered the map and
\* the user had rotated it: the centre is the device's, the rotation kept.
C17_Witness ==
    /\ lastEvent.type = "position"
    /\ Truthy(userPin)
    /\ lastEvent.viewport.bearing = 30
    /\ lastEvent.viewport.latitude # initialViewport.latitude
    /\ viewport.latitude = lastEvent.coords.latitude
    /\ viewport.longitude = lastEvent.coords.longitude
    /\ viewport.zoom = 12
    /\ viewport.bearing = 30
    /\ viewport.pitch = 20

\* The answer has no first candidate: its route list is empty or missing.
noCandidate(body) ==
    /\ body.json = "resolved"
    /\ body.data # Null
    /\ "routes" \in DOMAIN body.data => Len(body.data.routes) = 0

\* C18: the step that reads a successful answer without route candidates
\* leaves route unchanged and ends the activation in the catch block of
\* fetchRoute; no other activation is touched, and the text inputs and the
\* next click are handled after it.
C18_NoCandidateCaughtRouteKept ==
    [][/\ (handled' # handled /\ noCandidate(handled'.body)) =>
             LET i == handled'.activation
             IN  /\ inv[i].pc = "routeBody"
                 /\ route' = route
                 /\ handled'.route = route
                 /\ inv'[i] = [inv[i] EXCEPT
                                 !.pc = "done",
                                 !.logged = "Error in geocoding or fetching route:"]
                 /\ \A j \in Invocations \ {i} : inv'[j] = inv[j]
       /\ (handled.read /\ noCandidate(handled.body)) =>
             LET i == handled.activation
             IN  /\ inv[i].pc = "done"
                 /\ ENABLED setStartLocation("Ottawa")
                 /\ ENABLED setEndLocation("Toronto")
                 /\ (i < MaxInv /\ inv[i + 1].pc = "idle") =>
                       ENABLED fetchRoute(i + 1)]_vars

\* An activation read an answer with an empty route list while a route of
\* an earlier activation was shown: it has returned and the route is
\* still shown.
C18_Witness ==
    /\ handled.read
    /\ handled.body.json = "resolved"
    /\ handled.body.data = [routes |-> <<>>]
    /\ Truthy(handled.route)
    /\ route = handled.route
    /\ inv[handled.activation].pc = "done"
    /\ inv[handled.activation].logged = "Error in geocoding or fetching route:"

\* C19: an activation keeps the two texts of the click: its first request
\* is the lookup of the start text and its second the lookup of the end
\* text as they were then, whatever the inputs hold when the requests are
\* sent; a text edit changes no activation; and the route an activation
\* commits is the one between the places of its own two texts.
C19_ClickTextsUsedThroughout ==
    [][\A i \in Invocations :
          /\ (inv[i].pc = "idle" /\ inv'[i].pc = "geocodeStart") =>
                /\ inv'[i].startLocation = startLocation
                /\ inv'[i].endLocation = endLocation
          /\ inv[i].pc \notin {"idle", "done"} =>
                /\ inv'[i].startLocation = inv[i].startLocation
                /\ inv'[i].endLocation = inv[i].endLocation
          /\ Len(inv'[i].requests) >= 1 =>
                inv'[i].requests[1] = GeocodeRequest(inv'[i].startLocation)
          /\ Len(inv'[i].requests) >= 2 =>
                inv'[i].requests[2] = GeocodeRequest(inv'[i].endLocation)
          /\ (startLocation' # startLocation \/ endLocation' # endLocation) =>
                inv' = inv /\ route' = route
          /\ (inv[i].pc = "routeBody" /\ committed(inv'[i])) =>
                route' = directGeometry(PlaceCoords(inv[i].startLocation),
                                        PlaceCoords(inv[i].endLocation))]_vars

\* The start text was changed between the click and the second request:
\* the activation has committed the route from the place of the click's
\* text, and the input holds another.
C19_Witness ==
    \E i \in Invocations :
        /\ committed(inv[i])
        /\ inv[i].startLocation = "Ottawa"
        /\ startLocation = "Kingston"
        /\ endLocation = ""
        /\ route = directGeometry(PlaceCoords("Ottawa"), PlaceCoords("Toronto"))
        /\ \A j \in Invocations \ {i} : inv[j].pc = "idle"

====
